---- MODULE Spec2Model ----
(***************************************************************************)
(* A model of rnaseqlib/rpkm/rpkm_utils.py.                                *)
(*                                                                         *)
(* Spec      : output_rpkm driving map_bam2gff_subproc, with the tagging   *)
(*             tool (tagBam | samtools view -h) and the encoder            *)
(*             (samtools view -Shb -o) as separate processes joined to     *)
(*             the controller by bounded pipes.                            *)
(* FairSpec  : Spec with the operating system's scheduling of the three    *)
(*             processes stated as weak fairness.                          *)
(* CountSpec : output_rpkm_from_gff_aligned_bam, the streaming pass over   *)
(*             the tagged reads followed by the per-gene aggregation.      *)
(*                                                                         *)
(* Python strings are sequences of one-character strings, so that split,   *)
(* slicing, substring tests and int()/str() are computed, not assumed.     *)
(***************************************************************************)
EXTENDS Integers, Sequences, FiniteSets, TLC

\* ------------------------------------------------------------------------
\* Bounds of the model
\* ------------------------------------------------------------------------

\* Capacity, in lines or messages, of each operating-system pipe.
PipeCap == 1

\* Longest stream of lines the tagging tool emits in one call.
MaxLines == 2

\* Most diagnostics the encoder prints in one call.
MaxDiag == 2

\* Most alignment records in the tagged BAM file.
MaxReads == 3

\* Most entries of const_exons.genes_to_exons.
MaxGenes == 2

\* ------------------------------------------------------------------------
\* Python string primitives
\* ------------------------------------------------------------------------

\* sub in s
Contains(s, sub) ==
    \E i \in 1..(Len(s) - Len(sub) + 1) : SubSeq(s, i, i + Len(sub) - 1) = sub

\* s.startswith(p)
StartsWith(s, p) ==
    Len(p) <= Len(s) /\ SubSeq(s, 1, Len(p)) = p

\* s.find(sep) + 1, that is 0 when sep does not occur in s
Find(s, sep) ==
    LET idx == {i \in 1..(Len(s) - Len(sep) + 1) :
                    SubSeq(s, i, i + Len(sep) - 1) = sep}
    IN  IF idx = {} THEN 0 ELSE CHOOSE i \in idx : \A j \in idx : i <= j

\* s.split(sep), for a non-empty separator
RECURSIVE Split(_, _)
Split(s, sep) ==
    LET i == Find(s, sep)
    IN  IF i = 0 THEN <<s>>
        ELSE <<SubSeq(s, 1, i - 1)>> \o Split(SubSeq(s, i + Len(sep), Len(s)), sep)

\* s[0:-2]
DropLast2(s) ==
    IF Len(s) <= 2 THEN <<>> ELSE SubSeq(s, 1, Len(s) - 2)

\* xs[1:]
Rest(xs) ==
    IF Len(xs) <= 1 THEN <<>> ELSE SubSeq(xs, 2, Len(xs))

\* xs[0:2]
FirstTwo(xs) ==
    IF Len(xs) <= 2 THEN xs ELSE SubSeq(xs, 1, 2)

RECURSIVE Concat(_)
Concat(xs) ==
    IF xs = <<>> THEN <<>> ELSE Head(xs) \o Concat(Tail(xs))

\* sep.join(xs)
RECURSIVE Join(_, _)
Join(xs, sep) ==
    IF xs = <<>> THEN <<>>
    ELSE IF Len(xs) = 1 THEN Head(xs)
    ELSE Head(xs) \o sep \o Join(Tail(xs), sep)

Digits == <<"0", "1", "2", "3", "4", "5", "6", "7", "8", "9">>

\* str(n), n >= 0
RECURSIVE Str(_)
Str(n) ==
    IF n < 10 THEN <<Digits[n + 1]>>
    ELSE Str(n \div 10) \o <<Digits[(n % 10) + 1]>>

DigitVal(c) == (CHOOSE i \in 1..10 : Digits[i] = c) - 1

\* int(s), s a non-empty string of decimal digits
RECURSIVE ParseInt(_)
ParseInt(s) ==
    IF Len(s) = 1 THEN DigitVal(s[1])
    ELSE 10 * ParseInt(SubSeq(s, 1, Len(s) - 1)) + DigitVal(s[Len(s)])

TAB == <<"\t">>
NL  == <<"\n">>

\* ------------------------------------------------------------------------
\* map_bam2gff_subproc: the lines of the tagging tool
\* ------------------------------------------------------------------------

\* interval_label="gff", the default the pipeline calls with
interval_label == <<"g", "f", "f">>

\* gff_interval = ":%s:" %(interval_label)
gff_interval == <<":">> \o interval_label \o <<":">>

\* The marker that introduces the interval-overlap tag of a record.
TagMarker == <<"Y", "B", ":", "Z", ":">>

\* "@SQ\tSN:c\n": a header line
LineHeader == <<"@", "S", "Q">> \o TAB \o <<"S", "N", ":", "c">> \o NL

\* "r1\tc\tYB:Z:gff:c:0-5\n": a record tagged with an overlap of the label
LineHit ==
    <<"r", "1">> \o TAB \o <<"c">> \o TAB \o TagMarker \o interval_label
        \o <<":", "c", ":", "0", "-", "5">> \o NL

\* "r:gff:3\tc\n": no overlap tag, but a read name that holds ":gff:"
LineNameOnly == <<"r">> \o gff_interval \o <<"3">> \o TAB \o <<"c">> \o NL

\* "\tc\tYB:Z:gff:c:0-5\n": a tagged record whose read name is empty
LineNoName ==
    TAB \o <<"c">> \o TAB \o TagMarker \o interval_label
        \o <<":", "c", ":", "0", "-", "5">> \o NL

\* "r4\tc\tYB:Z:ex:c:0-5\n": a record tagged with another label's overlap
LineOtherLabel ==
    <<"r", "4">> \o TAB \o <<"c">> \o TAB \o TagMarker
        \o <<"e", "x", ":", "c", ":", "0", "-", "5">> \o NL

SamLines ==
    {LineHeader, LineHit, LineNameOnly, LineNoName, LineOtherLabel}

SamStreams == UNION {[1..n -> SamLines] : n \in 0..MaxLines}

\* Diagnostics the encoder may print on its stderr-merged standard output.
MsgTruncated == <<"t", "r", "u", "n", "c", "a", "t", "e", "d">> \o NL
MsgAbort     == <<"a", "b", "o", "r", "t">> \o NL
EncoderMsgs  == {MsgTruncated, MsgAbort}

Truncated == <<"t", "r", "u", "n", "c", "a", "t", "e", "d">>

\* The values of sample.qc.qc_results["num_ribosub_mapped"]: no mapped
\* read, or some.
MappedCounts == {0, 1}

\* rna_base.tables_to_const_exons: the constitutive-exon tables
Tables == {"ensGene", "refGene"}

\* read_name = sam_read.split("\t")[0]
ReadName(line) == Split(line, TAB)[1]

\* The decision of the relay loop for one line:
\* "skip" (empty read name), "header", "hit" or "drop".
Classify(line) ==
    IF ReadName(line) = <<>> THEN "skip"
    ELSE IF StartsWith(line, <<"@">>) THEN "header"
    ELSE IF Contains(line, gff_interval) THEN "hit"
    ELSE "drop"

\* EncoderOutcome without the tolerance for "truncated".
EncoderOutcomeStrict(returncode, output) ==
    IF returncode # 0 THEN "fatal" ELSE "returned"

\* The outcome decided from the encoder's return code and output text.
EncoderOutcome(returncode, output) ==
    IF returncode # 0
    THEN IF Contains(output, Truncated) THEN "returned" ELSE "fatal"
    ELSE "returned"

\* ZeroMapped testing for a negative count instead of zero.
ZeroMappedNegative(n) == n < 0

\* if num_mapped == 0: ... sys.exit(1)
ZeroMapped(n) == n = 0

\* ------------------------------------------------------------------------
\* output_rpkm_from_gff_aligned_bam: inputs and pure steps
\* ------------------------------------------------------------------------

\* "gff:", the marker the tag payload is split on
GffMarker == <<"g", "f", "f", ":">>

\* na_val="NA"
na_val == <<"N", "A">>

\* Overlaps as the tagging tool reports them: contig, 0-based start, end,
\* and the text that follows the coordinates up to the next overlap.
RegionA == [chrom |-> <<"c">>, start |-> 0, end |-> 5, suffix |-> <<",", "+", ",">>]
RegionB == [chrom |-> <<"c">>, start |-> 9, end |-> 12, suffix |-> <<",", "-">>]
RegionC == [chrom |-> <<"d">>, start |-> 0, end |-> 5, suffix |-> <<>>]

\* The alignment records of the tagged BAM file: whether the record has a
\* YB tag, the text of the payload before the first overlap of the label,
\* and the overlaps.
BamRecords ==
    { [tagged |-> FALSE, pre |-> <<>>, regions |-> <<>>],
      [tagged |-> TRUE, pre |-> <<>>, regions |-> <<RegionA>>],
      [tagged |-> TRUE, pre |-> <<>>, regions |-> <<RegionA, RegionB>>],
      [tagged |-> TRUE, pre |-> <<"e", "x", ":", "c", ":", "7", "-", "9", ",">>,
       regions |-> <<RegionC>>],
      [tagged |-> TRUE, pre |-> <<"e", "x", ":", "c", ":", "7", "-", "9">>,
       regions |-> <<>>] }

\* The text of one overlap in the payload: "gff:<contig>:<start>-<end><suffix>"
RegionText(r) ==
    GffMarker \o r.chrom \o <<":">> \o Str(r.start) \o <<"-">> \o Str(r.end)
        \o r.suffix

\* bam_read.opt("YB") of a tagged record
Payload(rec) ==
    rec.pre \o Concat([i \in 1..Len(rec.regions) |-> RegionText(rec.regions[i])])

\* Lines 259-266 without the conversion to a 1-based start.
RegionStrZeroBased(region) ==
    LET head == Split(region, <<",">>)[1]
        pair == FirstTwo(Split(head, <<":">>))
        coords == Split(pair[2], <<"-">>)
    IN  pair[1] \o <<":">> \o Str(ParseInt(coords[1])) \o <<"-">>
            \o Str(ParseInt(coords[2]))

\* region_chrom, coord_field = region.split(",")[0].split(":")[0:2]
\* region_start, region_end = map(int, coord_field.split("-"))
\* region_start += 1
\* region_str = "%s:%s-%s" %(region_chrom, str(region_start), str(region_end))
RegionStr(region) ==
    LET head == Split(region, <<",">>)[1]
        pair == FirstTwo(Split(head, <<":">>))
        coords == Split(pair[2], <<"-">>)
    IN  pair[1] \o <<":">> \o Str(ParseInt(coords[1]) + 1) \o <<"-">>
            \o Str(ParseInt(coords[2]))

\* The value a defaultdict(int) holds for a key, 0 for a key it lacks.
Lookup(table, k) == IF k \in DOMAIN table THEN table[k] ELSE 0

\* region_to_count[region_str] += 1
Increment(table, k) ==
    [x \in DOMAIN table \cup {k} |-> IF x = k THEN Lookup(table, k) + 1 ELSE table[x]]

\* for region in parsed_regions: ... region_to_count[region_str] += 1
RECURSIVE CountRegions(_, _)
CountRegions(table, parsed_regions) ==
    IF parsed_regions = <<>> THEN table
    ELSE CountRegions(Increment(table, RegionStr(Head(parsed_regions))),
                      Tail(parsed_regions))

\* One pass of the loop over bam_file: a record without the tag raises
\* KeyError and is skipped; the payload is split on "gff:" and the first
\* piece dropped.
CountRead(table, rec) ==
    IF ~rec.tagged THEN table
    ELSE CountRegions(table, Rest(Split(Payload(rec), GffMarker)))

\* Exon identifiers of the constitutive-exon table
ExonPlain   == <<"c", ":", "1", "-", "5", ":", "+">>
ExonMinus   == <<"c", ":", "1", "0", "-", "1", "2", ":", "-">>
ExonDot     == <<"x", ".", "c", ":", "1", "-", "5", ":", "+">>
ExonTwoDots == <<"x", ".", "y", ".", "d", ":", "1", "-", "5", ":", "+">>
ExonNamed   == <<"c", "h", "r", "1", ".", "e", "x", "o", "n", "5", "_", "+">>

ExonIds == {ExonPlain, ExonMinus, ExonDot, ExonTwoDots, ExonNamed}

\* const_exons.exon_lens
exon_lens == [e \in ExonIds |-> IF e = ExonMinus THEN 3 ELSE 5]

\* const_exons.genes_to_exons: the entries it may hold, each with its
\* exon identifiers (none for an entry whose exons field is "NA").
GeneInfos ==
    { [gene_id |-> "g1", exon_ids |-> <<ExonPlain, ExonNamed>>],
      [gene_id |-> "g2", exon_ids |-> <<ExonDot, ExonMinus>>],
      [gene_id |-> "g3", exon_ids |-> <<>>],
      [gene_id |-> "g4", exon_ids |-> <<ExonTwoDots>>] }

\* gene_info["exons"]
ExonsField(g) ==
    IF g.exon_ids = <<>> THEN na_val ELSE Join(g.exon_ids, <<",">>)

\* curr_exon = parsed_exon[0:-2]
\* if "." in curr_exon: curr_exon = curr_exon.split(".")[1]
StrandlessExon(parsed_exon) ==
    LET curr_exon == DropLast2(parsed_exon)
    IN  IF Contains(curr_exon, <<".">>) THEN Split(curr_exon, <<".">>)[2]
        ELSE curr_exon

\* The lookups of a table whose default for a key it lacks is 1.
TouchDefaultOne(table, keys) ==
    [x \in DOMAIN table \cup {keys[i] : i \in 1..Len(keys)} |->
        IF x \in DOMAIN table THEN table[x] ELSE 1]

\* [region_to_count[s_exon] for s_exon in strandless_exons] leaves every
\* key it looks up in the defaultdict, with 0 if it was not there.
Touch(table, keys) ==
    [x \in DOMAIN table \cup {keys[i] : i \in 1..Len(keys)} |-> Lookup(table, x)]

RECURSIVE Sum(_)
Sum(xs) == IF xs = <<>> THEN 0 ELSE Head(xs) + Sum(Tail(xs))

\* compute_rpkm: 10^9 * region_count / (region_len * num_total_reads), kept
\* as the pair <<region_count, region_len * num_total_reads>>; either
\* division by zero raises ZeroDivisionError.
compute_rpkm(region_count, region_len, num_total_reads) ==
    IF region_len = 0 \/ num_total_reads = 0 THEN <<"ZeroDivisionError">>
    ELSE <<region_count, region_len * num_total_reads>>

\* ------------------------------------------------------------------------
\* State of the pipeline: output_rpkm and map_bam2gff_subproc
\* ------------------------------------------------------------------------

VARIABLES
    num_mapped,         \* sample.qc.qc_results["num_ribosub_mapped"]
    rpkm_exists,        \* os.path.isfile(rpkm_output_filename), per table
    bam_exists,         \* os.path.isfile(output_filename), per table
    status,             \* how the last run ended: "none", "running",
                        \* "returned", "fatal" (sys.exit(1)), "exception"
    todo,               \* tables the loop of output_rpkm has not visited
    cur,                \* the table whose files the current call is about
    pc,                 \* the controller's position
    sam_lines,          \* the whole stream the tagging tool emits in this call
    tag_out,            \* tagBam_proc.stdout: the lines not yet read
    tag_state,          \* "none", "running", "exited"
    enc_state,          \* "none", "running", "diag" (writing a message), "exited"
    enc_in,             \* bam_proc.stdin: written, not yet consumed
    stdin_open,         \* the controller still holds bam_proc.stdin open
    enc_out,            \* bam_proc.stdout: printed, not yet read
    enc_msg,            \* the message the encoder is writing
    enc_diags,          \* messages the encoder has started to print
    returncode,         \* bam_proc.returncode, -1 while it runs
    sam_read,           \* the line the loop is handling
    num_headers,
    num_hits,
    num_skipped_reads,
    bam_results,        \* bam_proc.communicate()[0], as far as read
    written,            \* every line passed to bam_proc.stdin.write, in order
    launched,           \* subprocess.Popen calls made by the current call
    map_result,         \* how the current call of map_bam2gff_subproc ended
    last_returned,      \* per table: the latest finished call returned a path
    prev_returned,      \* last_returned of cur when the current call began
    rpkm_denoms,        \* every num_total_reads compute_rpkm was called with
    rpkm_written,       \* the tables output_rpkm_from_gff_aligned_bam wrote
    cpc,                \* output_rpkm_from_gff_aligned_bam: "off", "stream",
                        \* "genes", "done"
    reads_seen,         \* the records of bam_file read so far
    region_to_count,    \* the defaultdict(int)
    genes_seen,         \* the entries of genes_to_exons visited so far
    parsed_exons,       \* locals of the pass for the latest gene
    strandless_exons,
    curr_counts,
    curr_lens,
    rpkm_table

fsVars   == <<rpkm_exists, bam_exists>>
runVars  == <<status, todo, cur, pc>>
tagVars  == <<sam_lines, tag_out, tag_state>>
encVars  == <<enc_state, enc_in, enc_out, enc_msg, enc_diags, returncode>>
loopVars == <<sam_read, num_headers, num_hits, num_skipped_reads, written>>
callVars == <<launched, map_result, last_returned, prev_returned>>
outVars  == <<rpkm_denoms, rpkm_written>>
geneVars == <<parsed_exons, strandless_exons, curr_counts, curr_lens>>
countVars == <<cpc, reads_seen, region_to_count, genes_seen, geneVars, rpkm_table>>

vars ==
    <<num_mapped, fsVars, runVars, tagVars, encVars, stdin_open, loopVars,
      bam_results, callVars, outVars, countVars>>

pipeVars ==
    <<num_mapped, fsVars, runVars, tagVars, encVars, stdin_open, loopVars,
      bam_results, callVars, outVars>>

\* No run of the pipeline has begun.
PipeIdle ==
    /\ status = "none"
    /\ todo = {}
    /\ cur = "ensGene"
    /\ pc = "idle"
    /\ sam_lines = <<>>
    /\ tag_out = <<>>
    /\ tag_state = "none"
    /\ enc_state = "none"
    /\ enc_in = <<>>
    /\ stdin_open = FALSE
    /\ enc_out = <<>>
    /\ enc_msg = <<>>
    /\ enc_diags = 0
    /\ returncode = -1
    /\ sam_read = <<>>
    /\ num_headers = 0
    /\ num_hits = 0
    /\ num_skipped_reads = 0
    /\ bam_results = <<>>
    /\ written = <<>>
    /\ launched = 0
    /\ map_result = "none"
    /\ last_returned = [t \in Tables |-> FALSE]
    /\ prev_returned = FALSE
    /\ rpkm_denoms = {}
    /\ rpkm_written = {}

\* output_rpkm_from_gff_aligned_bam has not been entered.
CountIdle ==
    /\ reads_seen = <<>>
    /\ region_to_count = <<>>
    /\ genes_seen = <<>>
    /\ parsed_exons = <<>>
    /\ strandless_exons = <<>>
    /\ curr_counts = <<>>
    /\ curr_lens = <<>>
    /\ rpkm_table = <<>>

Init ==
    /\ num_mapped \in MappedCounts
    /\ rpkm_exists \in [Tables -> BOOLEAN]
    /\ bam_exists \in [Tables -> BOOLEAN]
    /\ PipeIdle
    /\ cpc = "off"
    /\ CountIdle

\* ------------------------------------------------------------------------
\* output_rpkm
\* ------------------------------------------------------------------------

\* A call frame that does not exist: no subprocess handles, no locals.
NoCall ==
    /\ sam_lines' = <<>>
    /\ tag_out' = <<>>
    /\ tag_state' = "none"
    /\ enc_state' = "none"
    /\ enc_in' = <<>>
    /\ enc_out' = <<>>
    /\ enc_msg' = <<>>
    /\ enc_diags' = 0
    /\ returncode' = -1
    /\ stdin_open' = FALSE
    /\ sam_read' = <<>>
    /\ num_headers' = 0
    /\ num_hits' = 0
    /\ num_skipped_reads' = 0
    /\ written' = <<>>
    /\ bam_results' = <<>>
    /\ launched' = 0
    /\ map_result' = "none"

\* The pipeline is started on the sample, any number of times on the same
\* output directory, once the processes of the run before are gone.
StartRun ==
    /\ pc = "idle"
    /\ enc_state \in {"none", "exited"}
    /\ status' = "running"
    /\ todo' = Tables
    /\ pc' = "loop"
    /\ prev_returned' = FALSE
    /\ NoCall
    /\ UNCHANGED <<num_mapped, fsVars, cur, last_returned, outVars, countVars>>

\* if os.path.isfile(rpkm_output_filename): ... continue
SkipRpkm ==
    /\ pc = "loop"
    /\ \E t \in todo :
        /\ rpkm_exists[t]
        /\ todo' = todo \ {t}
    /\ UNCHANGED <<num_mapped, fsVars, status, cur, pc, tagVars, encVars,
                   stdin_open, loopVars, bam_results, callVars, outVars, countVars>>

\* exons_bam_fname = map_bam2gff_subproc(...): the call is entered
CallMap ==
    /\ pc = "loop"
    /\ \E t \in todo :
        /\ ~rpkm_exists[t]
        /\ cur' = t
        /\ prev_returned' = last_returned[t]
    /\ pc' = "map_enter"
    /\ NoCall
    /\ UNCHANGED <<num_mapped, fsVars, status, todo, last_returned, outVars, countVars>>

\* The loop over the tables ends: return rpkm_output_filename
LoopEnd ==
    /\ pc = "loop"
    /\ todo = {}
    /\ status' = "returned"
    /\ pc' = "idle"
    /\ UNCHANGED <<num_mapped, fsVars, todo, cur, tagVars, encVars,
                   stdin_open, loopVars, bam_results, callVars, outVars, countVars>>

\* if num_mapped == 0: logger.critical(...); sys.exit(1)
NumMappedZero ==
    /\ pc = "num_mapped"
    /\ ZeroMapped(num_mapped)
    /\ status' = "fatal"
    /\ pc' = "aborted"
    /\ UNCHANGED <<num_mapped, fsVars, todo, cur, tagVars, encVars,
                   stdin_open, loopVars, bam_results, callVars, outVars, countVars>>

\* output_rpkm_from_gff_aligned_bam(...) on a BAM file that is there:
\* compute_rpkm is called with num_mapped and the table is written.
OutputTable ==
    /\ pc = "num_mapped"
    /\ ~ZeroMapped(num_mapped)
    /\ bam_exists[cur]
    /\ rpkm_denoms' = rpkm_denoms \cup {num_mapped}
    /\ rpkm_written' = rpkm_written \cup {cur}
    /\ rpkm_exists' = [rpkm_exists EXCEPT ![cur] = TRUE]
    /\ todo' = todo \ {cur}
    /\ pc' = "loop"
    /\ UNCHANGED <<num_mapped, bam_exists, status, cur, tagVars, encVars,
                   stdin_open, loopVars, bam_results, callVars, countVars>>

\* output_rpkm_from_gff_aligned_bam(...) on a path that names no file:
\* pysam.Samfile raises.
OutputTableNoBam ==
    /\ pc = "num_mapped"
    /\ ~ZeroMapped(num_mapped)
    /\ ~bam_exists[cur]
    /\ status' = "exception"
    /\ pc' = "aborted"
    /\ UNCHANGED <<num_mapped, fsVars, todo, cur, tagVars, encVars,
                   stdin_open, loopVars, bam_results, callVars, outVars, countVars>>

\* The interpreter exits after sys.exit(1) or an uncaught exception; the
\* operating system closes the pipe ends it held.
ProcessExit ==
    /\ pc = "aborted"
    /\ pc' = "idle"
    /\ stdin_open' = FALSE
    /\ UNCHANGED <<num_mapped, fsVars, status, todo, cur, tagVars,
                   encVars, loopVars, bam_results, callVars, outVars, countVars>>

\* ------------------------------------------------------------------------
\* map_bam2gff_subproc
\* ------------------------------------------------------------------------

\* if os.path.isfile(output_filename): ... return output_filename
MapSkipExisting ==
    /\ pc = "map_enter"
    /\ bam_exists[cur]
    /\ map_result' = "returned"
    /\ last_returned' = [last_returned EXCEPT ![cur] = TRUE]
    /\ pc' = "num_mapped"
    /\ UNCHANGED <<num_mapped, fsVars, status, todo, cur, tagVars, encVars,
                   stdin_open, loopVars, bam_results, launched, prev_returned,
                   outVars, countVars>>

\* if utils.which(tagBam) is None: logger.error(...); sys.exit(1)
MapWhichMissing ==
    /\ pc = "map_enter"
    /\ ~bam_exists[cur]
    /\ map_result' = "fatal"
    /\ last_returned' = [last_returned EXCEPT ![cur] = FALSE]
    /\ status' = "fatal"
    /\ pc' = "aborted"
    /\ UNCHANGED <<num_mapped, fsVars, todo, cur, tagVars, encVars,
                   stdin_open, loopVars, bam_results, launched, prev_returned,
                   outVars, countVars>>

\* tagBam_proc = subprocess.Popen(...); bam_proc = subprocess.Popen(...);
\* num_headers = 0; num_hits = 0; num_skipped_reads = 0
MapLaunch ==
    /\ pc = "map_enter"
    /\ ~bam_exists[cur]
    /\ \E stream \in SamStreams :
        /\ sam_lines' = stream
        /\ tag_out' = stream
    /\ tag_state' = "running"
    /\ enc_state' = "running"
    /\ enc_in' = <<>>
    /\ enc_out' = <<>>
    /\ enc_msg' = <<>>
    /\ enc_diags' = 0
    /\ returncode' = -1
    /\ stdin_open' = TRUE
    /\ sam_read' = <<>>
    /\ num_headers' = 0
    /\ num_hits' = 0
    /\ num_skipped_reads' = 0
    /\ written' = <<>>
    /\ bam_results' = <<>>
    /\ launched' = 2
    /\ pc' = "relay"
    /\ UNCHANGED <<num_mapped, fsVars, status, todo, cur, map_result,
                   last_returned, prev_returned, outVars, countVars>>

\* for sam_read in tagBam_proc.stdout: the tagging tool writes its next
\* line, and the loop reads and classifies it
RelayRead ==
    /\ pc = "relay"
    /\ tag_out # <<>>
    /\ tag_out' = Tail(tag_out)
    /\ LET kind == Classify(Head(tag_out))
       IN  /\ num_skipped_reads' =
                IF kind = "skip" THEN num_skipped_reads + 1 ELSE num_skipped_reads
           /\ sam_read' = IF kind \in {"header", "hit"} THEN Head(tag_out) ELSE <<>>
           /\ pc' = IF kind \in {"header", "hit"} THEN "write" ELSE "relay"
    /\ UNCHANGED <<num_mapped, fsVars, status, todo, cur, sam_lines,
                   tag_state, encVars, stdin_open, num_headers,
                   num_hits, written, bam_results, callVars, outVars, countVars>>

\* bam_proc.stdin.write(sam_read), which blocks while the pipe is full, then
\* num_headers += 1 or num_hits += 1
RelayWrite ==
    /\ pc = "write"
    /\ Len(enc_in) < PipeCap
    /\ enc_in' = Append(enc_in, sam_read)
    /\ written' = Append(written, sam_read)
    /\ num_headers' =
         IF Classify(sam_read) = "header" THEN num_headers + 1 ELSE num_headers
    /\ num_hits' =
         IF Classify(sam_read) = "header" THEN num_hits ELSE num_hits + 1
    /\ sam_read' = <<>>
    /\ pc' = "relay"
    /\ UNCHANGED <<num_mapped, fsVars, status, todo, cur, tagVars,
                   enc_state, enc_out, enc_msg, enc_diags, returncode,
                   stdin_open, num_skipped_reads, bam_results,
                   callVars, outVars, countVars>>

\* The tagging tool has closed its output and every line was read.
RelayEOF ==
    /\ pc = "relay"
    /\ tag_out = <<>>
    /\ tag_state = "exited"
    /\ pc' = "after_loop"
    /\ UNCHANGED <<num_mapped, fsVars, status, todo, cur, tagVars, encVars,
                   stdin_open, loopVars, bam_results, callVars, outVars, countVars>>

\* if num_headers == 0: logger.error("tagBam call failed."), and then
\* logger.error("tagBam error code: %d" %(tagBam_retval)) reads a local
\* that is assigned only further down: UnboundLocalError, before sys.exit(1).
NoHeaders ==
    /\ pc = "after_loop"
    /\ num_headers = 0
    /\ map_result' = "exception"
    /\ last_returned' = [last_returned EXCEPT ![cur] = FALSE]
    /\ status' = "exception"
    /\ pc' = "aborted"
    /\ UNCHANGED <<num_mapped, fsVars, todo, cur, tagVars, encVars,
                   stdin_open, loopVars, bam_results, launched, prev_returned,
                   outVars, countVars>>

\* Headers were seen (a warning is logged if num_hits == 0);
\* tagBam_retval = tagBam_proc.wait(); bam_proc.communicate() begins by
\* closing bam_proc.stdin.
HeadersSeen ==
    /\ pc = "after_loop"
    /\ num_headers > 0
    /\ tag_state = "exited"
    /\ stdin_open' = FALSE
    /\ pc' = "communicate"
    /\ UNCHANGED <<num_mapped, fsVars, status, todo, cur, tagVars, encVars,
                   loopVars, bam_results, callVars, outVars, countVars>>

\* bam_proc.communicate() reads the encoder's output
CommRead ==
    /\ pc = "communicate"
    /\ enc_out # <<>>
    /\ bam_results' = bam_results \o Head(enc_out)
    /\ enc_out' = Tail(enc_out)
    /\ UNCHANGED <<num_mapped, fsVars, runVars, tagVars, enc_state, enc_in,
                   enc_msg, enc_diags, returncode, stdin_open, loopVars,
                   callVars, outVars, countVars>>

\* bam_proc.communicate() returns; if bam_proc.returncode != 0: ...
CommDone ==
    /\ pc = "communicate"
    /\ enc_out = <<>>
    /\ enc_state = "exited"
    /\ LET outcome == EncoderOutcome(returncode, bam_results)
       IN  /\ map_result' = outcome
           /\ last_returned' = [last_returned EXCEPT ![cur] = (outcome = "returned")]
           /\ status' = IF outcome = "fatal" THEN "fatal" ELSE status
           /\ pc' = IF outcome = "fatal" THEN "aborted" ELSE "num_mapped"
    /\ UNCHANGED <<num_mapped, fsVars, todo, cur, tagVars, encVars,
                   stdin_open, loopVars, bam_results, launched, prev_returned,
                   outVars, countVars>>

\* ------------------------------------------------------------------------
\* The tagging tool: tagBam ... | samtools view -h -
\* ------------------------------------------------------------------------

\* The controller reads the tool's output whenever it is not writing to the
\* encoder, and the tool waits for it otherwise: what the tool has written
\* and the controller has not read yet changes nothing either of them does,
\* so a line is handed over in one step (RelayRead).

\* It has written everything: it closes its output and exits.
TagExit ==
    /\ tag_state = "running"
    /\ tag_out = <<>>
    /\ tag_state' = "exited"
    /\ UNCHANGED <<num_mapped, fsVars, runVars, sam_lines, tag_out,
                   encVars, stdin_open, loopVars, bam_results, callVars,
                   outVars, countVars>>

\* ------------------------------------------------------------------------
\* The encoder: samtools view -Shb -o <output_filename> -
\* ------------------------------------------------------------------------

\* It reads one line of its input.
EncConsume ==
    /\ enc_state = "running"
    /\ enc_in # <<>>
    /\ enc_in' = Tail(enc_in)
    /\ UNCHANGED <<num_mapped, fsVars, runVars, tagVars, enc_state, enc_out,
                   enc_msg, enc_diags, returncode, stdin_open, loopVars,
                   bam_results, callVars, outVars, countVars>>

\* It begins to print a diagnostic, while the controller is there to be
\* told.
EncStartDiag ==
    /\ enc_state = "running"
    /\ pc \in {"relay", "write", "after_loop", "communicate"}
    /\ enc_diags < MaxDiag
    /\ \E m \in EncoderMsgs : enc_msg' = m
    /\ enc_diags' = enc_diags + 1
    /\ enc_state' = "diag"
    /\ UNCHANGED <<num_mapped, fsVars, runVars, tagVars, enc_in, enc_out,
                   returncode, stdin_open, loopVars, bam_results, callVars,
                   outVars, countVars>>

\* The diagnostic is written, when the encoder's output pipe has room.
EncWriteDiag ==
    /\ enc_state = "diag"
    /\ Len(enc_out) < PipeCap
    /\ enc_out' = Append(enc_out, enc_msg)
    /\ enc_msg' = <<>>
    /\ enc_state' = "running"
    /\ UNCHANGED <<num_mapped, fsVars, runVars, tagVars, enc_in, enc_diags,
                   returncode, stdin_open, loopVars, bam_results, callVars,
                   outVars, countVars>>

\* The diagnostic cannot be written because the controller is gone: the
\* encoder is killed by SIGPIPE.
EncBrokenPipe ==
    /\ enc_state = "diag"
    /\ pc = "idle"
    /\ enc_msg' = <<>>
    /\ returncode' = 1
    /\ enc_state' = "exited"
    /\ UNCHANGED <<num_mapped, fsVars, runVars, tagVars, enc_in, enc_out,
                   enc_diags, stdin_open, loopVars, bam_results, callVars,
                   outVars, countVars>>

\* Its input is at end-of-stream: it exits. An exit with 0 has written the
\* file named by -o; a failing exit leaves that file behind if the encoder
\* had opened it, and none otherwise. (Nothing looks at the file while the
\* encoder runs.)
EncExit ==
    /\ enc_state = "running"
    /\ enc_in = <<>>
    /\ ~stdin_open
    /\ \E rc \in {0, 1}, opened \in BOOLEAN :
        /\ rc = 0 => opened
        /\ returncode' = rc
        /\ bam_exists' =
             IF opened THEN [bam_exists EXCEPT ![cur] = TRUE] ELSE bam_exists
    /\ enc_state' = "exited"
    /\ UNCHANGED <<num_mapped, rpkm_exists, runVars, tagVars, enc_in, enc_out,
                   enc_msg, enc_diags, stdin_open, loopVars, bam_results,
                   callVars, outVars, countVars>>

\* ------------------------------------------------------------------------
\* The pipeline as a whole
\* ------------------------------------------------------------------------

Controller ==
    \/ StartRun \/ SkipRpkm \/ CallMap \/ LoopEnd
    \/ NumMappedZero \/ OutputTable \/ OutputTableNoBam \/ ProcessExit
    \/ MapSkipExisting \/ MapWhichMissing \/ MapLaunch
    \/ RelayRead \/ RelayWrite \/ RelayEOF
    \/ NoHeaders \/ HeadersSeen \/ CommRead \/ CommDone

Tagger == TagExit

EncoderProgress == EncConsume \/ EncWriteDiag \/ EncBrokenPipe \/ EncExit

EncoderChoice == EncStartDiag

Next == Controller \/ Tagger \/ EncoderProgress \/ EncoderChoice

Spec == Init /\ [][Next]_vars

\* Every process that can take a step is eventually scheduled; what the
\* encoder may do but need not (print a diagnostic) is not forced.
FairSpec ==
    /\ Spec
    /\ WF_vars(Controller)
    /\ WF_vars(Tagger)
    /\ WF_vars(EncoderProgress)

\* ------------------------------------------------------------------------
\* output_rpkm_from_gff_aligned_bam
\* ------------------------------------------------------------------------

\* The function is entered by output_rpkm, which passes a mapped-read
\* count that is not 0; region_to_count = defaultdict(int).
CountInit ==
    /\ num_mapped \in MappedCounts \ {0}
    /\ rpkm_exists = [t \in Tables |-> FALSE]
    /\ bam_exists = [t \in Tables |-> TRUE]
    /\ PipeIdle
    /\ cpc = "stream"
    /\ CountIdle

\* for bam_read in bam_file: the next record is read and counted
StreamRead ==
    /\ cpc = "stream"
    /\ Len(reads_seen) < MaxReads
    /\ \E rec \in BamRecords :
        /\ reads_seen' = Append(reads_seen, rec)
        /\ region_to_count' = CountRead(region_to_count, rec)
    /\ UNCHANGED <<pipeVars, cpc, genes_seen, geneVars, rpkm_table>>

\* bam_file is exhausted; rpkm_table = []
StreamEnd ==
    /\ cpc = "stream"
    /\ cpc' = "genes"
    /\ UNCHANGED <<pipeVars, reads_seen, region_to_count, genes_seen, geneVars,
                   rpkm_table>>

\* for gene_info in const_exons.genes_to_exons:
\*     if exons == na_val: continue
GeneSkip ==
    /\ cpc = "genes"
    /\ Len(genes_seen) < MaxGenes
    /\ \E g \in GeneInfos :
        /\ ExonsField(g) = na_val
        /\ genes_seen' = Append(genes_seen, g)
    /\ UNCHANGED <<pipeVars, cpc, reads_seen, region_to_count, geneVars,
                   rpkm_table>>

\* for gene_info in const_exons.genes_to_exons: the pass for one gene, from
\* parsed_exons = exons.split(",") to rpkm_table.append(rpkm_entry)
GeneStep ==
    /\ cpc = "genes"
    /\ Len(genes_seen) < MaxGenes
    /\ \E g \in GeneInfos :
        LET exons == ExonsField(g)
            parsed == Split(exons, <<",">>)
            strandless == [i \in 1..Len(parsed) |-> StrandlessExon(parsed[i])]
            table == Touch(region_to_count, strandless)
            counts == [i \in 1..Len(strandless) |-> table[strandless[i]]]
            lens == [i \in 1..Len(parsed) |-> exon_lens[parsed[i]]]
        IN  /\ exons # na_val
            /\ genes_seen' = Append(genes_seen, g)
            /\ parsed_exons' = parsed
            /\ strandless_exons' = strandless
            /\ region_to_count' = table
            /\ curr_counts' = counts
            /\ curr_lens' = lens
            /\ IF Len(counts) = Len(lens)
               THEN /\ cpc' = cpc
                    /\ rpkm_table' =
                         Append(rpkm_table,
                                [rpkm |-> compute_rpkm(Sum(counts), Sum(lens),
                                                       num_mapped),
                                 gene_id |-> g.gene_id,
                                 counts |-> Sum(counts),
                                 exons |-> exons])
               ELSE \* assert(len(curr_counts) == len(curr_lens))
                    /\ cpc' = "AssertionError"
                    /\ rpkm_table' = rpkm_table
    /\ UNCHANGED <<pipeVars, reads_seen>>

\* rpkm_df = pandas.DataFrame(rpkm_table); rpkm_df.to_csv(...); return
GenesEnd ==
    /\ cpc = "genes"
    /\ cpc' = "done"
    /\ UNCHANGED <<pipeVars, reads_seen, region_to_count, genes_seen, geneVars,
                   rpkm_table>>

CountNext == StreamRead \/ StreamEnd \/ GeneSkip \/ GeneStep \/ GenesEnd

CountSpec == CountInit /\ [][CountNext]_vars

\* ------------------------------------------------------------------------
\* Properties of the tagging step (map_bam2gff_subproc) and of output_rpkm
\* ------------------------------------------------------------------------

\* The current call of map_bam2gff_subproc launched its subprocesses and
\* has ended, by a return or by an abort.
CallEnded == launched > 0 /\ map_result # "none"

\* The text of a line without its line terminator, split into its fields.
Fields(line) ==
    Split(IF Len(line) > 0 /\ line[Len(line)] = "\n"
          THEN SubSeq(line, 1, Len(line) - 1) ELSE line, TAB)

\* The record's interval-overlap tag field holds ":<label>:".
TagHasLabel(line) ==
    \E i \in 2..Len(Fields(line)) :
        /\ StartsWith(Fields(line)[i], <<"Y", "B", ":">>)
        /\ Contains(Fields(line)[i], gff_interval)

IsHeader(line) == Len(line) > 0 /\ line[1] = "@"

ShouldForward(line) == IsHeader(line) \/ TagHasLabel(line)

\* C1: once the stream of the tagging tool has been read to its end, the
\* lines written to the encoder are exactly the header lines and the
\* non-header records whose overlap tag holds ":<label>:", in order.
C1_ForwardsExactlyTagged ==
    pc = "after_loop" => written = SelectSeq(sam_lines, ShouldForward)

\* C2: a call that follows a call with the same arguments that returned
\* normally launches no subprocess.
C2_SecondCallLaunchesNothing ==
    prev_returned => launched = 0

\* C3: with at least one header forwarded, the call returns the path when
\* the encoder exits 0, and when it exits non-zero with "truncated" in its
\* output (zero hits included); it ends in the fatal exit when the encoder
\* exits non-zero without "truncated" in its output; nothing else decides.
C3_EncoderOutcome ==
    (CallEnded /\ num_headers > 0) =>
        /\ returncode = 0 => map_result = "returned"
        /\ (returncode # 0 /\ Contains(bam_results, Truncated))
               => map_result = "returned"
        /\ (returncode # 0 /\ ~Contains(bam_results, Truncated))
               => (map_result = "fatal" /\ status = "fatal")
        /\ map_result = "returned" => pc \in {"num_mapped", "loop", "aborted", "idle"}

\* The encoder failed with "truncated" in its output after headers and no
\* hit were forwarded, and the call returned the path.
C3_Witness ==
    /\ CallEnded
    /\ num_headers > 0
    /\ num_hits = 0
    /\ returncode # 0
    /\ Contains(bam_results, Truncated)
    /\ map_result = "returned"

\* C4: a call whose stream ended with no header forwarded ends in the
\* fatal exit, sys.exit(1), like the other fatal conditions.
C4_NoHeadersFatalExit ==
    (CallEnded /\ num_headers = 0) => (map_result = "fatal" /\ status = "fatal")

\* C5: after a call that began without the output file and ended in an
\* abort, the output file does not exist.
C5_NoStaleOutput ==
    map_result \in {"fatal", "exception"} => ~bam_exists[cur]

\* C6: the controller is never blocked for good on a write to the encoder:
\* when the encoder's input pipe is full, the encoder is able to read it
\* (EncConsume), or to finish the diagnostic it is printing (EncWriteDiag)
\* and read it then.
C6_RelayNeverStuck ==
    (pc = "write" /\ Len(enc_in) >= PipeCap) =>
        \/ enc_state = "running"
        \/ enc_state = "diag" /\ Len(enc_out) < PipeCap

\* C7: when the call aborts because no header was forwarded, the encoder
\* has been terminated: it is not left running with its input open.
C7_EncoderTerminated ==
    (pc = "aborted" /\ CallEnded /\ num_headers = 0)
        => ~(enc_state \in {"running", "diag"} /\ stdin_open)

\* C8: with a mapped-read count of 0, compute_rpkm is never invoked, no
\* RPKM table is written, and a run returns normally only if every table
\* was already there; a run that meets a missing table ends in an abort.
C8_ZeroMappedAborts ==
    /\ 0 \notin rpkm_denoms
    /\ num_mapped = 0 =>
        /\ rpkm_denoms = {}
        /\ rpkm_written = {}
        /\ pc # "loop" \/ \A t \in Tables \ todo : rpkm_exists[t]
        /\ status = "returned" => \A t \in Tables : rpkm_exists[t]

\* The tagging step returned a path for a missing table, one table had
\* been skipped as present, and the run aborted on the zero count.
C8_Witness ==
    /\ num_mapped = 0
    /\ pc = "aborted"
    /\ status = "fatal"
    /\ map_result = "returned"
    /\ \E t \in Tables : rpkm_exists[t] /\ t \notin todo

\* ------------------------------------------------------------------------
\* Properties of output_rpkm_from_gff_aligned_bam
\* ------------------------------------------------------------------------

\* The RegionKey of an overlap: "contig:(start+1)-end"
RegionKey(r) ==
    r.chrom \o <<":">> \o Str(r.start + 1) \o <<"-">> \o Str(r.end)

\* The (record, segment) pairs read so far.
OverlapPairs ==
    {<<i, j>> \in (1..Len(reads_seen)) \X (1..2) :
        reads_seen[i].tagged /\ j <= Len(reads_seen[i].regions)}

PairsOfKey(k) ==
    {p \in OverlapPairs : RegionKey(reads_seen[p[1]].regions[p[2]]) = k}

RECURSIVE SumValues(_, _)
SumValues(table, keys) ==
    IF keys = {} THEN 0
    ELSE LET k == CHOOSE x \in keys : TRUE
         IN  table[k] + SumValues(table, keys \ {k})

\* C9: whatever records were streamed, in whatever order, the count of every
\* RegionKey is the number of (record, segment) pairs with that key; a
\* record without the tag adds nothing; no count is negative; the counts
\* add up to the number of pairs.
C9_RegionCounts ==
    /\ \A k \in DOMAIN region_to_count \cup {RegionKey(r) : r \in {RegionA, RegionB, RegionC}} :
          Lookup(region_to_count, k) = Cardinality(PairsOfKey(k))
    /\ \A k \in DOMAIN region_to_count : region_to_count[k] >= 0
    /\ SumValues(region_to_count, DOMAIN region_to_count) = Cardinality(OverlapPairs)

\* The pass has ended over a record without the tag, a record with two
\* overlaps and a second record on one of those intervals.
C9_Witness ==
    /\ cpc = "genes"
    /\ \E i \in 1..Len(reads_seen) : ~reads_seen[i].tagged
    /\ \E i \in 1..Len(reads_seen) : Len(reads_seen[i].regions) = 2
    /\ \E k \in DOMAIN region_to_count : region_to_count[k] = 2
    /\ Cardinality(DOMAIN region_to_count) = 2

\* The identifier without its last two characters and, if that holds a
\* ".", without everything up to and including the first ".".
Normalized(exon) ==
    LET stem == IF Len(exon) <= 2 THEN <<>> ELSE SubSeq(exon, 1, Len(exon) - 2)
        dots == {i \in 1..Len(stem) : stem[i] = "."}
    IN  IF dots = {} THEN stem
        ELSE SubSeq(stem, (CHOOSE i \in dots : \A j \in dots : i <= j) + 1, Len(stem))

LatestGene == genes_seen[Len(genes_seen)]

\* C10: for the gene just aggregated, the key looked up in the count table
\* for each exon is the identifier normalized as above, and the length is
\* looked up under the identifier as it stands in the exon list.
C10_ExonNormalization ==
    (genes_seen # <<>> /\ LatestGene.exon_ids # <<>>) =>
        /\ Len(strandless_exons) = Len(LatestGene.exon_ids)
        /\ \A i \in 1..Len(LatestGene.exon_ids) :
              /\ strandless_exons[i] = Normalized(LatestGene.exon_ids[i])
              /\ curr_lens[i] = exon_lens[LatestGene.exon_ids[i]]

\* ------------------------------------------------------------------------
\* Properties of the per-gene aggregation
\* ------------------------------------------------------------------------

\* The genes read so far whose exons field is not "NA", in list order.
AggregatedGenes == SelectSeq(genes_seen, LAMBDA g : g.exon_ids # <<>>)

\* The number of reads counted for an exon: the pairs streamed under the
\* key its identifier is looked up by, 0 if there are none.
ExonCount(exon) == Cardinality(PairsOfKey(StrandlessExon(exon)))

RECURSIVE SumOver(_, _, _)
SumOver(F(_), ids, n) ==
    IF n = 0 THEN 0 ELSE F(ids[n]) + SumOver(F, ids, n - 1)

ExonLen(exon) == exon_lens[exon]

C12_TableFrozen ==
    [][(cpc \in {"genes", "done"}) => (region_to_count' = region_to_count)]_vars

====
